---- MODULE Spec2Model ----
(***************************************************************************)
(* Flux multi-agent review pipeline: the worker adapters (agents.py), the  *)
(* result merger and the coordinator run_orchestrator (orchestrator.py),   *)
(* and the entry points that start the pipeline (main.py, ai_reviewer.py). *)
(*                                                                         *)
(* Python dicts are functions with a string domain (a missing key is a     *)
(* key outside DOMAIN); an insertion-ordered dict that is updated by       *)
(* several steps also keeps the sequence of its keys.  A backend text is   *)
(* identified by what json.loads makes of it: kind "invalid" (json.loads   *)
(* raises), "list", "string", "number", "null", or "object" with the       *)
(* parsed dict in obj.  Wall-clock durations are abstracted to 0.          *)
(***************************************************************************)
EXTENDS Integers, Sequences, FiniteSets, TLC

VARIABLES
    pc,             \* position of the coordinator / its caller
    code,           \* the submitted source text (a sequence of characters)
    sink,           \* TRUE iff a progress_callback was supplied
    next_submit,    \* index of the next analysis agent the launch loop submits
    fut,            \* per analysis domain: the future returned by executor.submit
    reply,          \* per worker: what the backend did on that worker's call
    agent_results,  \* the coordinator's agent_results dict (insertion ordered)
    merged_issues,  \* result of _merge_issues
    issues_text,    \* digest handed to run_autofix_agent
    autofix_calls,  \* number of invocations of run_autofix_agent
    scored,         \* final_score and grade computed in the merge phase
    report,         \* the value run_orchestrator returns
    events,         \* progress events delivered to the sink, in order
    call,           \* pure-function harness: name of the function applied
    args,           \* pure-function harness: its arguments
    ret             \* pure-function harness: its result

vars == <<pc, code, sink, next_submit, fut, reply, agent_results, merged_issues,
          issues_text, autofix_calls, scored, report, events, call, args, ret>>

pipelineVars == <<pc, code, sink, next_submit, fut, reply, agent_results,
                  merged_issues, issues_text, autofix_calls, scored, report,
                  events>>

harnessVars == <<call, args, ret>>

-----------------------------------------------------------------------------
(* Bounds of the pure-function harness.                                    *)

\* largest line number a generated finding carries
MaxLine == 1

\* largest total number of findings over the four domains in one merge input
MaxFindings == 2

-----------------------------------------------------------------------------
(* Python dict helpers.                                                    *)

EmptyDict == [k \in {} |-> 0]

\* d.get(k, default)
Get(d, k, default) == IF k \in DOMAIN d THEN d[k] ELSE default

\* d[k] = v on a dict held as a function
With(d, k, v) == (k :> v) @@ d

\* an insertion-ordered dict: its keys in insertion order, and its mapping
EmptyOrdered == [order |-> <<>>, map |-> EmptyDict]

\* k in od
HasKey(od, k) == k \in DOMAIN od.map

\* od.get(k, default) on an insertion-ordered dict
DictGet(od, k, default) == Get(od.map, k, default)

\* od[k] = v : a new key is appended, an existing key keeps its position
DictSet(od, k, v) ==
    [order |-> IF HasKey(od, k) THEN od.order ELSE Append(od.order, k),
     map   |-> With(od.map, k, v)]

-----------------------------------------------------------------------------
(* The analysis domains, in the insertion order of analysis_agents.        *)

Domains == <<"security", "performance", "style", "bugs">>

DomainSet == {Domains[i] : i \in 1..Len(Domains)}

\* key of the findings list in a domain's result
FindingsKey(d) ==
    CASE d = "security"    -> "vulnerabilities"
      [] d = "performance" -> "issues"
      [] d = "style"       -> "issues"
      [] d = "bugs"        -> "bugs"

\* key of the sub-score in a domain's result
ScoreKey(d) ==
    CASE d = "security"    -> "security_score"
      [] d = "performance" -> "performance_score"
      [] d = "style"       -> "style_score"
      [] d = "bugs"        -> "reliability_score"

\* key of the fix text in a finding of the domain
FixKey(d) ==
    CASE d = "security"    -> "fix"
      [] d = "performance" -> "optimization"
      [] d = "style"       -> "suggestion"
      [] d = "bugs"        -> "fix"

\* key a finding's type is read from
TypeKey(d) == IF d = "style" THEN "category" ELSE "type"

\* category written into a merged issue
Category(d) == IF d = "bugs" THEN "bug" ELSE d

DefaultSeverity(d) ==
    CASE d = "security"    -> "medium"
      [] d = "performance" -> "medium"
      [] d = "style"       -> "low"
      [] d = "bugs"        -> "high"

DefaultType(d) ==
    CASE d = "security"    -> "vulnerability"
      [] d = "performance" -> "bottleneck"
      [] d = "style"       -> "style"
      [] d = "bugs"        -> "logic_error"

DefaultImpact(d) ==
    CASE d = "security"    -> "Could compromise application security."
      [] d = "performance" -> "May degrade application performance."
      [] d = "style"       -> "Reduces code readability and maintainability."
      [] d = "bugs"        -> "Could cause unexpected behavior or crashes."

\* the third key of a domain's fallback result, and its value
FallbackExtraKey(d) ==
    CASE d = "security"    -> "risk_level"
      [] d = "performance" -> "overall_complexity"
      [] d = "style"       -> "maintainability_index"
      [] d = "bugs"        -> "confidence"

-----------------------------------------------------------------------------
(* Backend behaviour on one call, and the worker adapters (agents.py).     *)

\* the backend call raises (client creation or chat.completions.create)
RaiseReply == [kind |-> "raise", obj |-> EmptyDict]

\* the backend answers a text that json.loads maps to kind (obj: the dict)
TextReply(kind, obj) == [kind |-> kind, obj |-> obj]

NonObjectKinds == {"list", "string", "number", "null"}

\* str(e) of the exception a failed backend call raises
BackendErrorMsg == "Connection error."

\* text returned by _call_openai: json.dumps({"error": str(e)}) when the call
\* raises, the (fence-stripped) answer otherwise
CallOpenAI(b) ==
    IF b.kind = "raise"
    THEN TextReply("object", [error |-> BackendErrorMsg])
    ELSE b

\* routing of _call_llm with USE_LOCAL_MODEL unset (its default "false")
CallLLM(b) == CallOpenAI(b)

\* a Python value: None is kind "null", a dict is kind "object"
PyNone == [kind |-> "null", obj |-> EmptyDict]

PyDict(o) == [kind |-> "object", obj |-> o]

\* _parse_json_safe(text, fallback)
ParseJsonSafe(text, fallback) ==
    IF text.kind # "invalid"
    THEN text
    ELSE IF fallback # PyNone
         THEN fallback
         ELSE PyDict([error |-> "Failed to parse agent response", raw |-> "raw text"])

\* outcome of an adapter call
Returned(v) == [status |-> "returned", value |-> v, exc |-> ""]

Raised(msg) == [status |-> "raised", value |-> EmptyDict, exc |-> msg]

\* str(e) of x.get(...) on a value that is not a dict
AttributeErrorMsg(kind) ==
    CASE kind = "list"   -> "'list' object has no attribute 'get'"
      [] kind = "string" -> "'str' object has no attribute 'get'"
      [] kind = "number" -> "'int' object has no attribute 'get'"
      [] kind = "null"   -> "'NoneType' object has no attribute 'get'"

\* str(e) of x["_duration_ms"] = ... on a value that is not a dict
TypeErrorMsg(kind) ==
    CASE kind = "list"   -> "list indices must be integers or slices, not str"
      [] kind = "string" -> "'str' object does not support item assignment"
      [] kind = "number" -> "'int' object does not support item assignment"
      [] kind = "null"   -> "'NoneType' object does not support item assignment"

\* the fallback dict an analysis agent passes to _parse_json_safe
AnalysisFallback(d, reason) ==
    (FindingsKey(d) :> <<>>) @@ (ScoreKey(d) :> 0)
        @@ (FallbackExtraKey(d) :> "unknown")
        @@ ("summary" :> <<"Analysis failed", reason>>)

\* run_security_agent / run_performance_agent / run_style_agent /
\* run_bug_detector_agent for domain d, the backend behaving as b.  The
\* fallback argument is evaluated first: its summary calls .get on the parsed
\* text, which raises AttributeError when the text parses to a non-dict.
RunAnalysisAgent(d, b) ==
    LET text  == CallLLM(b)
        inner == ParseJsonSafe(text, PyDict(EmptyDict))
    IN  IF inner.kind # "object"
        THEN Raised(AttributeErrorMsg(inner.kind))
        ELSE LET reason == Get(inner.obj, "error", "parse error")
                 result == ParseJsonSafe(text, PyDict(AnalysisFallback(d, reason)))
             IN  Returned(With(result.obj, "_duration_ms", 0))

\* the fallback dict run_autofix_agent passes to _parse_json_safe
AutofixFallback(c) ==
    [fixed_code |-> c, changes_made |-> <<>>,
     improvement_summary |-> "Unable to generate fixes"]

\* run_autofix_agent(code, language, issues_summary), the backend behaving as
\* b; result["_duration_ms"] = ... raises TypeError on a non-dict
RunAutofixAgent(c, b) ==
    LET text   == CallLLM(b)
        result == ParseJsonSafe(text, PyDict(AutofixFallback(c)))
    IN  IF result.kind # "object"
        THEN Raised(TypeErrorMsg(result.kind))
        ELSE Returned(With(result.obj, "_duration_ms", 0))

-----------------------------------------------------------------------------
(* Result merger (_merge_issues).                                          *)

\* the merged issue one finding f of domain d is projected to
Project(d, f) ==
    [line        |-> Get(f, "line", 0),
     severity    |-> Get(f, "severity", DefaultSeverity(d)),
     category    |-> Category(d),
     type        |-> Get(f, TypeKey(d), DefaultType(d)),
     description |-> Get(f, "description", ""),
     suggestion  |-> Get(f, FixKey(d), ""),
     impact      |-> Get(f, "impact", DefaultImpact(d))]

\* agent_results.get(d, {}).get(<findings key>, [])
DomainFindings(ar, d) == Get(DictGet(ar, d, EmptyDict), FindingsKey(d), <<>>)

\* the issues one domain appends to merged, in the worker's own order
ProjectedFindings(ar, d) ==
    LET fs == DomainFindings(ar, d)
    IN  [i \in 1..Len(fs) |-> Project(d, fs[i])]

\* severity_order.get(severity, 4)
SeverityRank(sev) ==
    CASE sev = "critical" -> 0
      [] sev = "high"     -> 1
      [] sev = "medium"   -> 2
      [] sev = "low"      -> 3
      [] OTHER            -> 4

\* mutant of SortKey: the line number is left out of the key
SortKeyNoLine(x) == <<SeverityRank(x.severity), 0>>

\* the sort key (severity_order.get(x["severity"], 4), x["line"])
SortKey(x) == <<SeverityRank(x.severity), x.line>>

\* tuple comparison k1 < k2
KeyLess(k1, k2) == k1[1] < k2[1] \/ (k1[1] = k2[1] /\ k1[2] < k2[2])

RECURSIVE InsertStable(_, _)
\* x inserted into the sorted list s behind every element whose key is <= its own
InsertStable(s, x) ==
    IF Len(s) = 0
    THEN <<x>>
    ELSE IF KeyLess(SortKey(x), SortKey(Head(s)))
         THEN <<x>> \o s
         ELSE <<Head(s)>> \o InsertStable(Tail(s), x)

RECURSIVE SortStable(_)
\* list.sort(key=...): a stable sort
SortStable(s) ==
    IF Len(s) = 0
    THEN <<>>
    ELSE InsertStable(SortStable(SubSeq(s, 1, Len(s) - 1)), s[Len(s)])

\* the list before sorting: security, performance, style, bugs
MergedUnsorted(ar) ==
    ProjectedFindings(ar, "security") \o ProjectedFindings(ar, "performance")
        \o ProjectedFindings(ar, "style") \o ProjectedFindings(ar, "bugs")

RECURSIVE DropRepeated(_)
\* s without the issues whose line and description an earlier issue has
DropRepeated(s) ==
    IF Len(s) = 0
    THEN <<>>
    ELSE LET front == SubSeq(s, 1, Len(s) - 1)
             x     == s[Len(s)]
         IN  IF \E i \in 1..Len(front) :
                    front[i].line = x.line /\ front[i].description = x.description
             THEN DropRepeated(front)
             ELSE Append(DropRepeated(front), x)

\* mutant of MergeIssues: findings repeated by line and description are merged
MergeIssuesDedup(ar) == DropRepeated(SortStable(MergedUnsorted(ar)))

RECURSIVE ProjectedInOrder(_, _)
\* the projected findings of the analysis keys of ar, in the order given
ProjectedInOrder(ar, order) ==
    IF Len(order) = 0
    THEN <<>>
    ELSE (IF Head(order) \in DomainSet
          THEN ProjectedFindings(ar, Head(order))
          ELSE <<>>) \o ProjectedInOrder(ar, Tail(order))

\* mutant of MergeIssues: the domains are walked in the dict's insertion
\* order, which is the order the workers finished in
MergeIssuesInCompletionOrder(ar) == SortStable(ProjectedInOrder(ar, ar.order))

\* _merge_issues(agent_results)
MergeIssues(ar) == SortStable(MergedUnsorted(ar))

-----------------------------------------------------------------------------
(* Scoring (_compute_final_score, _compute_grade) and the auto-fix digest. *)

\* the sub-score of domain d that enters the weighted sum (default 100)
SubScore(ar, d) == Get(DictGet(ar, d, EmptyDict), ScoreKey(d), 100)

\* the float json.loads gives a JSON number beyond the double range
\* (the text 1e999 is parsed to inf); its negation stands for -inf
PosInf == 1000000

\* math.isfinite(x)
IsFinite(x) == x # PosInf /\ x # -PosInf

\* weights of _compute_final_score, in hundredths
Weight(d) ==
    CASE d = "security"    -> 30
      [] d = "performance" -> 20
      [] d = "style"       -> 15
      [] d = "bugs"        -> 35

\* mutant of Weighted100: the plain sum of the four sub-scores, unweighted
UnweightedMean100(ar) ==
    25 * SubScore(ar, "security") + 25 * SubScore(ar, "performance")
        + 25 * SubScore(ar, "style") + 25 * SubScore(ar, "bugs")

\* 100 * sum(scores[k] * weights[k]), as an exact number
Weighted100(ar) ==
    Weight("security") * SubScore(ar, "security")
        + Weight("performance") * SubScore(ar, "performance")
        + Weight("style") * SubScore(ar, "style")
        + Weight("bugs") * SubScore(ar, "bugs")

\* floor(n100 / 100), also for negative n100
Floor100(n100) == IF n100 >= 0 THEN n100 \div 100 ELSE -((99 - n100) \div 100)

\* mutant of Round: the fraction is cut off
RoundDown(n100) == {Floor100(n100)}

\* int(round(weighted)): weighted is the float sum of four float products
\* and differs from the exact sum n100/100 by a rounding error far below
\* 0.05, the least distance of a sum of hundredths that is no tie from a
\* tie. Off a tie the result is the nearest integer; on a tie the rounding
\* error decides between the two neighbours.
Round(n100) ==
    LET q == Floor100(n100)
        r == n100 - 100 * q
    IN  IF r < 50 THEN {q}
        ELSE IF r > 50 THEN {q + 1}
        ELSE {q, q + 1}

Min(a, b) == IF a < b THEN a ELSE b

Max(a, b) == IF a > b THEN a ELSE b

\* max(0, min(100, x))
Clamp(x) == Max(0, Min(100, x))

\* the scores have values on which round() raises OverflowError (inf) or
\* ValueError (nan = inf - inf)
RoundRaises(ar) == \E d \in DomainSet : ~IsFinite(SubScore(ar, d))

\* _compute_final_score(agent_results): what the call may return or raise
ComputeFinalScore(ar) ==
    IF RoundRaises(ar)
    THEN {[status |-> "raised", value |-> 0,
           exc |-> "cannot convert float infinity to integer"]}
    ELSE {[status |-> "returned", value |-> Clamp(r), exc |-> ""] :
             r \in Round(Weighted100(ar))}

\* mutant of ComputeGrade: the lower bounds are exclusive
ComputeGradeExclusive(score) ==
    IF score > 95 THEN "A+"
    ELSE IF score > 88 THEN "A"
    ELSE IF score > 80 THEN "A-"
    ELSE IF score > 75 THEN "B+"
    ELSE IF score > 70 THEN "B"
    ELSE IF score > 65 THEN "B-"
    ELSE IF score > 60 THEN "C+"
    ELSE IF score > 55 THEN "C"
    ELSE IF score > 50 THEN "C-"
    ELSE IF score > 40 THEN "D"
    ELSE "F"

\* _compute_grade(score)
ComputeGrade(score) ==
    IF score >= 95 THEN "A+"
    ELSE IF score >= 88 THEN "A"
    ELSE IF score >= 80 THEN "A-"
    ELSE IF score >= 75 THEN "B+"
    ELSE IF score >= 70 THEN "B"
    ELSE IF score >= 65 THEN "B-"
    ELSE IF score >= 60 THEN "C+"
    ELSE IF score >= 55 THEN "C"
    ELSE IF score >= 50 THEN "C-"
    ELSE IF score >= 40 THEN "D"
    ELSE "F"

\* int(x) of the float x that stands for the exact sum n10/10: the fraction
\* is cut off towards zero; when the exact sum is an integer the float sum
\* is that integer or lies a rounding error beside it, and the cut then gives
\* the integer or its neighbour towards zero
Trunc10(n10) ==
    LET a == IF n10 >= 0 THEN n10 ELSE -n10
        q == a \div 10
        sign(x) == IF n10 >= 0 THEN x ELSE -x
    IN  IF a % 10 # 0 \/ q = 0
        THEN {sign(q)}
        ELSE {sign(q), sign(q - 1)}

\* _compute_metrics(agent_results): what the call may return or raise
ComputeMetrics(ar) ==
    LET sec_score   == SubScore(ar, "security")
        perf_score  == SubScore(ar, "performance")
        style_score == SubScore(ar, "style")
        bug_score   == SubScore(ar, "bugs")
    IN  IF ~IsFinite(perf_score) \/ ~IsFinite(style_score) \/ ~IsFinite(bug_score)
        THEN {[status |-> "raised", value |-> EmptyDict,
               exc |-> "cannot convert float infinity to integer"]}
        ELSE {[status |-> "returned",
               value  |-> [security        |-> Min(100, Max(0, sec_score)),
                           performance     |-> Min(100, Max(0, perf_score)),
                           maintainability |-> Min(100, Max(0, m)),
                           readability     |-> Min(100, Max(0, r))],
               exc    |-> ""] :
                 m \in Trunc10(6 * style_score + 4 * bug_score),
                 r \in Trunc10(8 * style_score + 2 * perf_score)}

\* the issues of a category, in merged order
OfCategory(issues, cat) == SelectSeq(issues, LAMBDA i : i.category = cat)

\* a tip of the quick-wins list: its text pattern and the count it names
Tip(kind, n) == [tip |-> kind, count |-> n]

\* the tips _generate_quick_wins appends per category, in the code's order
CategoryTips(issues) ==
    LET sec_issues  == OfCategory(issues, "security")
        crit_sec    == SelectSeq(sec_issues,
                           LAMBDA i : i.severity \in {"critical", "high"})
        perf_issues == OfCategory(issues, "performance")
        bug_issues  == OfCategory(issues, "bug")
        style_issues == OfCategory(issues, "style")
    IN  (IF Len(sec_issues) = 0 THEN <<>>
         ELSE IF Len(crit_sec) > 0
              THEN <<Tip("fix critical/high security", Len(crit_sec))>>
              ELSE <<Tip("address minor security warnings", 0)>>)
        \o (IF Len(perf_issues) = 0 THEN <<>>
            ELSE <<Tip("optimize performance hotspots", Len(perf_issues))>>)
        \o (IF Len(bug_issues) = 0 THEN <<>>
            ELSE <<Tip("fix bugs", Len(bug_issues))>>)
        \o (IF Len(style_issues) = 0 THEN <<>>
            ELSE <<Tip("clean up style issues", Len(style_issues))>>)

\* the general tips appended when fewer than three tips were generated
GeneralTips(issues) ==
    (IF Len(OfCategory(issues, "security")) = 0
     THEN <<Tip("add input validation", 0)>>
     ELSE <<>>)
    \o <<Tip("add unit tests", 0), Tip("use type hints", 0)>>

\* s[:n]
Take(s, n) == SubSeq(s, 1, Min(n, Len(s)))

\* mutant of GenerateQuickWins: the general tips are appended to every list
\* and the list is returned uncut
GenerateQuickWinsUncut(issues) == CategoryTips(issues) \o GeneralTips(issues)

\* mutant of GenerateQuickWins: no general tip is appended
GenerateQuickWinsNoFiller(issues) == Take(CategoryTips(issues), 5)

\* _generate_quick_wins(merged_issues)
GenerateQuickWins(issues) ==
    LET quick_wins == CategoryTips(issues)
    IN  Take(IF Len(quick_wins) < 3
             THEN quick_wins \o GeneralTips(issues)
             ELSE quick_wins, 5)

\* the scoring lines of phase 2: final_score and grade, or the exception
\* that leaves run_orchestrator. _compute_metrics raises on no input that
\* _compute_final_score, called before it, has not already raised on.
ScoreStage(ar) ==
    {IF out.status = "raised"
     THEN [status |-> "raised", value |-> [final_score |-> 0, grade |-> ""],
           exc |-> out.exc]
     ELSE [status |-> "returned",
           value  |-> [final_score |-> out.value, grade |-> ComputeGrade(out.value)],
           exc    |-> ""] :
        out \in ComputeFinalScore(ar)}

\* the digest tag of a domain
DigestTag(d) ==
    CASE d = "security"    -> "[SECURITY]"
      [] d = "performance" -> "[PERFORMANCE]"
      [] d = "style"       -> "[STYLE]"
      [] d = "bugs"        -> "[BUG]"

\* one digest line: "[TAG] Line <n>: <description> -> Fix: <fix>"
DigestLine(d, f) ==
    [tag         |-> DigestTag(d),
     line        |-> IF "line" \in DOMAIN f THEN ToString(f.line) ELSE "?",
     description |-> Get(f, "description", ""),
     fix         |-> Get(f, FixKey(d), "")]

DigestLines(ar, d) ==
    LET fs == DomainFindings(ar, d)
    IN  [i \in 1..Len(fs) |-> DigestLine(d, fs[i])]

\* the one-line digest used when no domain has a finding
NoIssuesDigest == <<[tag |-> "No issues found."]>>

\* _build_issues_summary_for_autofix(agent_results): the lines that
\* "\n".join puts together
BuildIssuesSummaryForAutofix(ar) ==
    LET lines == DigestLines(ar, "security") \o DigestLines(ar, "performance")
                    \o DigestLines(ar, "style") \o DigestLines(ar, "bugs")
    IN  IF Len(lines) > 0 THEN lines ELSE NoIssuesDigest

-----------------------------------------------------------------------------
(* Inputs of the pipeline: submitted codes and sample backend answers.     *)

\* str.strip() on a sequence of characters
Whitespace == {" "}

RECURSIVE LStrip(_)
LStrip(c) == IF Len(c) > 0 /\ Head(c) \in Whitespace THEN LStrip(Tail(c)) ELSE c

RECURSIVE RStrip(_)
RStrip(c) ==
    IF Len(c) > 0 /\ c[Len(c)] \in Whitespace
    THEN RStrip(SubSeq(c, 1, Len(c) - 1))
    ELSE c

Strip(c) == RStrip(LStrip(c))

\* submitted codes: empty, whitespace only, padded and plain text
Codes == {<<>>, <<" ">>, <<" ", "x">>}

\* a finding of domain d with every field the merger reads
FullFinding(d) ==
    ("line" :> 1) @@ ("severity" :> "high") @@ ("description" :> "a")
        @@ (FixKey(d) :> "x")

\* findings that leave severity and fix to the defaults and tie on the sort key
BareFindingB == [line |-> 2, description |-> "b"]

BareFindingC == [line |-> 2, description |-> "c"]

\* objects a backend answers for an analysis prompt of domain d: no finding,
\* or three findings of which the first two tie and the third sorts first
SampleResults(d) ==
    { (FindingsKey(d) :> <<>>) @@ (ScoreKey(d) :> 100) @@ ("summary" :> <<"clean">>),
      (FindingsKey(d) :> <<BareFindingB, BareFindingC, FullFinding(d)>>)
          @@ (ScoreKey(d) :> 80) @@ ("summary" :> <<"three findings">>) }

\* what the backend may do on an analysis worker's call
AnalysisReplies(d) ==
    {RaiseReply, TextReply("invalid", EmptyDict), TextReply("list", EmptyDict)}
        \cup {TextReply("object", o) : o \in SampleResults(d)}

\* what the backend may do on the auto-fix worker's call
AutofixReplies ==
    {RaiseReply, TextReply("invalid", EmptyDict), TextReply("list", EmptyDict),
     TextReply("object",
        [fixed_code |-> <<"y">>, changes_made |-> <<[line |-> 1]>>,
         improvement_summary |-> "fixed"])}

NoReply == [kind |-> "none", obj |-> EmptyDict]

Workers == DomainSet \cup {"autofix"}

\* a future executor.submit has not created yet
Unsubmitted == [status |-> "unsubmitted", value |-> EmptyDict, exc |-> ""]

\* a submitted future whose worker has not finished
Running == [status |-> "running", value |-> EmptyDict, exc |-> ""]

Terminal(f) == f.status \in {"returned", "raised"}

-----------------------------------------------------------------------------
(* The coordinator (run_orchestrator) and the callers that start it.       *)

\* progress_callback of a run: whether one was given, and the events on which
\* the caller's callback raises
NoSink == [given |-> FALSE, raises_on |-> {}]

\* event_queue.put of the streaming endpoint: never raises
QueueSink == [given |-> TRUE, raises_on |-> {}]

\* notify(agent, status): the callback, if one was given, is called with the
\* event; events holds the calls in order
Notify(ev, s, agent, status) ==
    IF s.given THEN Append(ev, <<agent, status>>) ELSE ev

\* the callback raises on this event, and notify with it
NotifyRaises(s, agent, status) == s.given /\ <<agent, status>> \in s.raises_on

\* str(e) of the exception a callback raises
SinkErrorMsg == "sink failed"

\* mutant of AsCompletedExhausted: the loop is left after the first future
AsCompletedShort(ar) == \E d \in DomainSet : HasKey(ar, d)

\* the as_completed loop has yielded every future
AsCompletedExhausted(ar) == \A d \in DomainSet : HasKey(ar, d)

\* per-worker block of the report for an analysis domain
AgentBlock(ar, d) ==
    [score   |-> Get(DictGet(ar, d, EmptyDict), ScoreKey(d), 0),
     count   |-> Len(DomainFindings(ar, d)),
     summary |-> Get(DictGet(ar, d, EmptyDict), "summary", <<>>)]

CountSeverity(issues, sev) ==
    Cardinality({i \in 1..Len(issues) : issues[i].severity = sev})

\* the dict run_orchestrator returns
AssembleReport(issues, sc, autofix_result, ar) ==
    [issues        |-> issues,
     score         |-> sc.final_score,
     grade         |-> sc.grade,
     fixed_code    |-> Get(autofix_result, "fixed_code", <<>>),
     changes_made  |-> Get(autofix_result, "changes_made", <<>>),
     agent_results |-> [d \in DomainSet |-> AgentBlock(ar, d)],
     metadata      |-> [total_issues   |-> Len(issues),
                        critical_count |-> CountSeverity(issues, "critical"),
                        high_count     |-> CountSeverity(issues, "high"),
                        medium_count   |-> CountSeverity(issues, "medium"),
                        low_count      |-> CountSeverity(issues, "low"),
                        agents_used    |-> 5]]

NotScored == [final_score |-> 0, grade |-> ""]

PipelineInit ==
    /\ pc = "idle"
    /\ code = <<>>
    /\ sink = NoSink
    /\ next_submit = 1
    /\ fut = [d \in DomainSet |-> Unsubmitted]
    /\ reply = [w \in Workers |-> NoReply]
    /\ agent_results = EmptyOrdered
    /\ merged_issues = <<>>
    /\ issues_text = <<>>
    /\ autofix_calls = 0
    /\ scored = NotScored
    /\ report = EmptyDict
    /\ events = <<>>

HarnessIdle ==
    /\ call = "none"
    /\ args = EmptyDict
    /\ ret = EmptyDict

\* run_orchestrator is entered: the pipeline start is notified
StartOrchestrator(c, s) ==
    /\ code' = c
    /\ sink' = s
    /\ events' = Notify(events, s, "orchestrator", "started")
    /\ pc' = IF NotifyRaises(s, "orchestrator", "started") THEN "raised" ELSE "launching"
    /\ UNCHANGED <<next_submit, fut, reply, agent_results, merged_issues,
                   issues_text, autofix_calls, scored, report>>

\* the request is answered with HTTP 400 "Code cannot be empty"
RejectEmpty(c) ==
    /\ code' = c
    /\ pc' = "rejected"
    /\ UNCHANGED <<sink, next_submit, fut, reply, agent_results, merged_issues,
                   issues_text, autofix_calls, scored, report, events>>

\* POST /api/review by an anonymous caller
ReviewCode(c) ==
    /\ pc = "idle"
    /\ IF Len(Strip(c)) = 0 THEN RejectEmpty(c) ELSE StartOrchestrator(c, NoSink)
    /\ UNCHANGED harnessVars

\* POST /api/review/stream by an anonymous caller: the pipeline runs with
\* progress_callback = event_queue.put
ReviewCodeStream(c) ==
    /\ pc = "idle"
    /\ IF Len(Strip(c)) = 0 THEN RejectEmpty(c) ELSE StartOrchestrator(c, QueueSink)
    /\ UNCHANGED harnessVars

\* ai_code_review(code, language): the legacy entry delegates unchecked
AiCodeReview(c) ==
    /\ pc = "idle"
    /\ StartOrchestrator(c, NoSink)
    /\ UNCHANGED harnessVars

\* run_orchestrator(code, language, progress_callback) called with a callback
\* of the caller's
RunOrchestrator(c, s) ==
    /\ pc = "idle"
    /\ StartOrchestrator(c, s)
    /\ UNCHANGED harnessVars

\* one turn of the launch loop: notify running, executor.submit; an exception
\* of notify leaves the with block, which waits for the workers submitted
\* so far, and then run_orchestrator
Submit ==
    /\ pc = "launching"
    /\ next_submit <= Len(Domains)
    /\ events' = Notify(events, sink, Domains[next_submit], "running")
    /\ IF NotifyRaises(sink, Domains[next_submit], "running")
       THEN /\ pc' = "raised"
            /\ UNCHANGED <<fut, next_submit>>
       ELSE /\ fut' = [fut EXCEPT ![Domains[next_submit]] = Running]
            /\ next_submit' = next_submit + 1
            /\ pc' = IF next_submit = Len(Domains) THEN "joining" ELSE "launching"
    /\ UNCHANGED <<code, sink, reply, agent_results, merged_issues, issues_text,
                   autofix_calls, scored, report, harnessVars>>

\* the worker of domain d runs on its pool thread, the backend answering
\* with one of replies
WorkerRunWith(d, replies) ==
    /\ fut[d].status = "running"
    /\ \E b \in replies :
          /\ reply' = [reply EXCEPT ![d] = b]
          /\ fut' = [fut EXCEPT ![d] = RunAnalysisAgent(d, b)]
    /\ UNCHANGED <<pc, code, sink, next_submit, agent_results, merged_issues,
                   issues_text, autofix_calls, scored, report, events, harnessVars>>

WorkerRun(d) == WorkerRunWith(d, AnalysisReplies(d))

\* mutant of HandleCompleted: the finished futures are handled inside the
\* launch loop as well, before every worker has been submitted
HandleCompletedEarly(d) ==
    /\ pc \in {"launching", "joining"}
    /\ Terminal(fut[d])
    /\ ~HasKey(agent_results, d)
    /\ IF fut[d].status = "returned" /\ ~NotifyRaises(sink, d, "completed")
       THEN /\ agent_results' = DictSet(agent_results, d, fut[d].value)
            /\ events' = Notify(events, sink, d, "completed")
            /\ pc' = pc
       ELSE /\ agent_results' =
                  DictSet(agent_results, d,
                      [error |-> IF fut[d].status = "returned"
                                 THEN SinkErrorMsg ELSE fut[d].exc])
            /\ events' =
                  Notify(IF fut[d].status = "returned"
                         THEN Notify(events, sink, d, "completed") ELSE events,
                         sink, d, "failed")
            /\ pc' = IF NotifyRaises(sink, d, "failed") THEN "raised" ELSE pc
    /\ UNCHANGED <<code, sink, next_submit, fut, reply, merged_issues,
                   issues_text, autofix_calls, scored, report, harnessVars>>

\* one turn of the as_completed loop, on the finished future of domain d.
\* The try block covers future.result(), the assignment and notify
\* completed: an exception of that notify is handled like one of the worker,
\* the result just stored is replaced by the error record and failed is
\* notified; an exception of notify failed leaves run_orchestrator.
HandleCompleted(d) ==
    /\ pc = "joining"
    /\ Terminal(fut[d])
    /\ ~HasKey(agent_results, d)
    /\ IF fut[d].status = "returned" /\ ~NotifyRaises(sink, d, "completed")
       THEN /\ agent_results' = DictSet(agent_results, d, fut[d].value)
            /\ events' = Notify(events, sink, d, "completed")
            /\ pc' = pc
       ELSE /\ agent_results' =
                  DictSet(agent_results, d,
                      [error |-> IF fut[d].status = "returned"
                                 THEN SinkErrorMsg ELSE fut[d].exc])
            /\ events' =
                  Notify(IF fut[d].status = "returned"
                         THEN Notify(events, sink, d, "completed") ELSE events,
                         sink, d, "failed")
            /\ pc' = IF NotifyRaises(sink, d, "failed") THEN "raised" ELSE pc
    /\ UNCHANGED <<code, sink, next_submit, fut, reply, merged_issues,
                   issues_text, autofix_calls, scored, report, harnessVars>>

\* phase 2: the pool is left, the results are merged and scored; an exception
\* of notify or of _compute_final_score leaves run_orchestrator
MergeAndScore ==
    /\ pc = "joining"
    /\ AsCompletedExhausted(agent_results)
    /\ events' = Notify(events, sink, "orchestrator", "merging")
    /\ IF NotifyRaises(sink, "orchestrator", "merging")
       THEN pc' = "raised" /\ UNCHANGED <<merged_issues, scored>>
       ELSE /\ merged_issues' = MergeIssues(agent_results)
            /\ \E out \in ScoreStage(agent_results) :
                  IF out.status = "raised"
                  THEN pc' = "raised" /\ UNCHANGED scored
                  ELSE scored' = out.value /\ pc' = "merged"
    /\ UNCHANGED <<code, sink, next_submit, fut, reply, agent_results, issues_text,
                   autofix_calls, report, harnessVars>>

\* mutant of AutofixStart: the auto-fix agent is started with the analysis
\* agents, before the pool is joined
AutofixStartEarly ==
    /\ pc \in {"joining", "merged"}
    /\ events' = Notify(events, sink, "autofix", "running")
    /\ issues_text' = BuildIssuesSummaryForAutofix(agent_results)
    /\ autofix_calls' = autofix_calls + 1
    /\ pc' = "autofixing"
    /\ UNCHANGED <<code, sink, next_submit, fut, reply, agent_results,
                   merged_issues, scored, report, harnessVars>>

\* phase 3 begins: running is notified, the digest is built and
\* run_autofix_agent is called
AutofixStart ==
    /\ pc = "merged"
    /\ events' = Notify(events, sink, "autofix", "running")
    /\ IF NotifyRaises(sink, "autofix", "running")
       THEN pc' = "raised" /\ UNCHANGED <<issues_text, autofix_calls>>
       ELSE /\ issues_text' = BuildIssuesSummaryForAutofix(agent_results)
            /\ autofix_calls' = autofix_calls + 1
            /\ pc' = "autofixing"
    /\ UNCHANGED <<code, sink, next_submit, fut, reply, agent_results,
                   merged_issues, scored, report, harnessVars>>

\* run_autofix_agent ends, the backend answering with one of replies: its
\* exception leaves run_orchestrator; its result is recorded, completed is
\* notified for the agent and for the orchestrator, and the report is
\* returned unless one of the two notify calls raises
AutofixFinishWith(replies) ==
    /\ pc = "autofixing"
    /\ \E b \in replies :
          LET out == RunAutofixAgent(code, b)
          IN  /\ reply' = [reply EXCEPT !["autofix"] = b]
              /\ IF out.status = "raised"
                 THEN /\ pc' = "raised"
                      /\ UNCHANGED <<agent_results, events, report>>
                 ELSE /\ agent_results' = DictSet(agent_results, "autofix", out.value)
                      /\ IF NotifyRaises(sink, "autofix", "completed")
                         THEN /\ events' = Notify(events, sink, "autofix", "completed")
                              /\ pc' = "raised"
                              /\ UNCHANGED report
                         ELSE /\ events' =
                                    Notify(Notify(events, sink, "autofix", "completed"),
                                           sink, "orchestrator", "completed")
                              /\ IF NotifyRaises(sink, "orchestrator", "completed")
                                 THEN pc' = "raised" /\ UNCHANGED report
                                 ELSE /\ pc' = "done"
                                      /\ report' =
                                            AssembleReport(merged_issues, scored, out.value,
                                                DictSet(agent_results, "autofix", out.value))
    /\ UNCHANGED <<code, sink, next_submit, fut, merged_issues, issues_text,
                   autofix_calls, scored, harnessVars>>

AutofixFinish == AutofixFinishWith(AutofixReplies)

Init == PipelineInit /\ HarnessIdle

Next ==
    \/ \E c \in Codes : ReviewCode(c)
    \/ \E c \in Codes : ReviewCodeStream(c)
    \/ \E c \in Codes : AiCodeReview(c)
    \/ Submit
    \/ \E d \in DomainSet : WorkerRun(d)
    \/ \E d \in DomainSet : HandleCompleted(d)
    \/ MergeAndScore
    \/ AutofixStart
    \/ AutofixFinish

Spec == Init /\ [][Next]_vars

-----------------------------------------------------------------------------
(* run_orchestrator called with a callback of the caller's, which may      *)
(* raise.                                                                  *)

\* the events notify emits in a run
AllEvents ==
    {<<"orchestrator", "started">>, <<"orchestrator", "merging">>,
     <<"orchestrator", "completed">>, <<"autofix", "running">>,
     <<"autofix", "completed">>}
        \cup {<<d, st>> : d \in DomainSet, st \in {"running", "completed", "failed"}}

\* callbacks of a caller: one that never raises, and for every event one
\* that raises on that event
CallerSinks ==
    {QueueSink} \cup {[given |-> TRUE, raises_on |-> {e}] : e \in AllEvents}

\* backend behaviour in these runs: the call raises, or answers an object
SinkReplies(d) == {b \in AnalysisReplies(d) : b.kind \in {"raise", "object"}}

SinkAutofixReplies == {b \in AutofixReplies : b.kind \in {"raise", "object"}}

NextSink ==
    \/ \E s \in CallerSinks : RunOrchestrator(<<"x">>, s)
    \/ Submit
    \/ \E d \in DomainSet : WorkerRunWith(d, SinkReplies(d))
    \/ \E d \in DomainSet : HandleCompleted(d)
    \/ MergeAndScore
    \/ AutofixStart
    \/ AutofixFinishWith(SinkAutofixReplies)

SpecSink == Init /\ [][NextSink]_vars

-----------------------------------------------------------------------------
(* The streaming endpoint: run_pipeline on its thread fills event_queue,   *)
(* event_generator drains it into the response. In these runs call names   *)
(* the generator, args holds what run_pipeline itself has put, and ret     *)
(* the generator's state.                                                  *)

ResultItem == <<"pipeline", "result">>

ErrorItem == <<"pipeline", "error">>

\* the None that ends the stream
Sentinel == <<"pipeline", "sentinel">>

TimeoutItem == <<"pipeline", "timeout">>

\* all that was put into event_queue, in order: the progress events, then
\* the items of run_pipeline
Queue == events \o args.put

InitStream ==
    /\ PipelineInit
    /\ call = "event_generator"
    /\ args = [put |-> <<>>]
    /\ ret = [stream |-> <<>>, taken |-> 0, closed |-> FALSE]

\* backend behaviour in these runs: the call raises, or answers an object
\* with findings; the auto-fix answer may also be a JSON list
StreamReplies(d) ==
    {b \in AnalysisReplies(d) :
        \/ b.kind = "raise"
        \/ b.kind = "object" /\ Len(Get(b.obj, FindingsKey(d), <<>>)) > 0}

StreamAutofixReplies == {b \in AutofixReplies : b.kind # "invalid"}

\* mutant of RunPipelineEnd: the sentinel is put at the end of the try
\* block, not in a finally clause
RunPipelineEndNoFinally ==
    /\ pc \in {"done", "raised"}
    /\ args.put = <<>>
    /\ args' = [put |-> IF pc = "done" THEN <<ResultItem, Sentinel>> ELSE <<ErrorItem>>]
    /\ UNCHANGED <<pipelineVars, call, ret>>

\* run_pipeline after run_orchestrator (anonymous caller, nothing is saved):
\* the result, or the error of an exception, is put, and then the sentinel
RunPipelineEnd ==
    /\ pc \in {"done", "raised"}
    /\ args.put = <<>>
    /\ args' = [put |-> <<IF pc = "done" THEN ResultItem ELSE ErrorItem, Sentinel>>]
    /\ UNCHANGED <<pipelineVars, call, ret>>

\* event_generator: event_queue.get returns an item; the sentinel ends the
\* stream, every other item is yielded
GeneratorGet ==
    /\ pc \notin {"idle", "rejected"}
    /\ ~ret.closed
    /\ ret.taken < Len(Queue)
    /\ LET item == Queue[ret.taken + 1]
       IN  ret' = IF item = Sentinel
                  THEN [ret EXCEPT !.taken = @ + 1, !.closed = TRUE]
                  ELSE [ret EXCEPT !.taken = @ + 1, !.stream = Append(@, item)]
    /\ UNCHANGED <<pipelineVars, call, args>>

\* run_orchestrator waits for a backend call: the pool is being joined and
\* no finished future is left to handle, or the auto-fix agent runs
AwaitingBackend ==
    \/ /\ pc = "joining"
       /\ \E d \in DomainSet : fut[d].status = "running"
       /\ \A d \in DomainSet : Terminal(fut[d]) => HasKey(agent_results, d)
    \/ pc = "autofixing"

\* event_generator: event_queue.get(timeout=120) raises queue.Empty, the
\* queue having stayed empty for 120 seconds of a backend call; a timeout
\* event is yielded and the generator ends
GeneratorTimeout ==
    /\ ~ret.closed
    /\ ret.taken = Len(Queue)
    /\ AwaitingBackend
    /\ ret' = [ret EXCEPT !.stream = Append(@, TimeoutItem), !.closed = TRUE]
    /\ UNCHANGED <<pipelineVars, call, args>>

NextStream ==
    \/ \E c \in Codes : ReviewCodeStream(c)
    \/ Submit
    \/ \E d \in DomainSet : WorkerRunWith(d, StreamReplies(d))
    \/ \E d \in DomainSet : HandleCompleted(d)
    \/ MergeAndScore
    \/ AutofixStart
    \/ AutofixFinishWith(StreamAutofixReplies)
    \/ RunPipelineEnd
    \/ GeneratorGet
    \/ GeneratorTimeout

SpecStream == InitStream /\ [][NextStream]_vars

\* backend behaviour in the runs whose termination is checked: the call
\* raises, or answers an object without findings
QuietReplies(d) ==
    {b \in AnalysisReplies(d) :
        \/ b.kind = "raise"
        \/ b.kind = "object" /\ Len(Get(b.obj, FindingsKey(d), <<>>)) = 0}

\* a step of one of the threads of a started stream
StreamWork ==
    \/ Submit
    \/ \E d \in DomainSet : WorkerRunWith(d, QuietReplies(d))
    \/ \E d \in DomainSet : HandleCompleted(d)
    \/ MergeAndScore
    \/ AutofixStart
    \/ AutofixFinishWith(StreamAutofixReplies)
    \/ RunPipelineEnd
    \/ GeneratorGet

NextStreamFair ==
    \/ \E c \in Codes : ReviewCodeStream(c)
    \/ StreamWork
    \/ GeneratorTimeout

\* scheduling of a stream: while a thread has a step to take one is taken,
\* and every backend call returns or raises; nothing makes a request arrive
\* or a call last 120 seconds
FairStream == WF_vars(StreamWork)

SpecStreamFair == InitStream /\ [][NextStreamFair]_vars /\ FairStream

-----------------------------------------------------------------------------
(* Harness of the adapters: one adapter is applied to one backend answer.  *)

Severities == {"critical", "high", "medium", "low", "info"}

\* a generated finding; line -1 and severity "absent" leave the key out
GenFinding(l, sev) ==
    (IF l = -1 THEN EmptyDict ELSE [line |-> l])
        @@ (IF sev = "absent" THEN EmptyDict ELSE [severity |-> sev])
        @@ [description |-> "a"]

GenFindings ==
    {GenFinding(l, sev) : l \in {-1} \cup 1..MaxLine, sev \in Severities \cup {"absent"}}

\* lists of at most n elements of S
ListsUpTo(S, n) == UNION {[1..k -> S] : k \in 0..n}

\* generated result objects of domain d; score -1 leaves the score out
GenResult(d, findings, score) ==
    (FindingsKey(d) :> findings)
        @@ (IF score = -1 THEN EmptyDict ELSE (ScoreKey(d) :> score))
        @@ ("summary" :> <<"generated">>)

GenReplies(d) ==
    {RaiseReply, TextReply("invalid", EmptyDict)}
        \cup {TextReply(k, EmptyDict) : k \in NonObjectKinds}
        \cup {TextReply("object", GenResult(d, fs, sc)) :
                fs \in ListsUpTo(GenFindings, 1), sc \in {-1, 0, 100}}

\* run_<domain>_agent(code, language) applied to one backend answer
CallAnalysisAdapter(d, b) ==
    /\ call = "none"
    /\ call' = "run_agent"
    /\ args' = [worker |-> d, reply |-> b]
    /\ ret' = RunAnalysisAgent(d, b)
    /\ UNCHANGED pipelineVars

\* run_autofix_agent(code, language, issues_summary) applied to one answer
CallAutofixAdapter(c, b) ==
    /\ call = "none"
    /\ call' = "run_agent"
    /\ args' = [worker |-> "autofix", reply |-> b, code |-> c]
    /\ ret' = RunAutofixAgent(c, b)
    /\ UNCHANGED pipelineVars

NextAdapter ==
    \/ \E d \in DomainSet : \E b \in GenReplies(d) : CallAnalysisAdapter(d, b)
    \/ \E c \in Codes : \E b \in AutofixReplies \cup {TextReply(k, EmptyDict) : k \in NonObjectKinds} :
          CallAutofixAdapter(c, b)

SpecAdapter == Init /\ [][NextAdapter]_vars

-----------------------------------------------------------------------------
(* Harness of the merger: _merge_issues applied to growing worker results. *)

\* agent_results in which every analysis worker reported no finding
EmptyResults ==
    [order |-> Domains,
     map   |-> [d \in DomainSet |-> GenResult(d, <<>>, 100)]]

TotalFindings(ar) ==
    Len(DomainFindings(ar, "security")) + Len(DomainFindings(ar, "performance"))
        + Len(DomainFindings(ar, "style")) + Len(DomainFindings(ar, "bugs"))

InitMerge ==
    /\ PipelineInit
    /\ call = "_merge_issues"
    /\ args = EmptyResults
    /\ ret = MergeIssues(args)

\* one worker reports one more finding and the results are merged
MergeWithFinding ==
    /\ call = "_merge_issues"
    /\ TotalFindings(args) < MaxFindings
    /\ \E d \in DomainSet : \E f \in GenFindings :
          args' = DictSet(args, d,
                     With(DictGet(args, d, EmptyDict), FindingsKey(d),
                          Append(DomainFindings(args, d), f)))
    /\ ret' = MergeIssues(args')
    /\ UNCHANGED <<call, pipelineVars>>

NextMerge == MergeWithFinding

SpecMerge == InitMerge /\ [][NextMerge]_vars

-----------------------------------------------------------------------------
(* Harness of the scoring functions: one function is applied to one set of *)
(* worker results.                                                         *)

\* sub-scores a worker result may carry: below, in and above 0..100, and inf
ScoreSamples == {-50, 0, 10, 36, 100, 150, PosInf}

\* what agent_results may hold for domain d: a result with a sub-score, or
\* the record of a failed call, which has no sub-score
ScoredResults(d) ==
    {[error |-> BackendErrorMsg]}
        \cup {(ScoreKey(d) :> sc) @@ ("summary" :> <<"scored">>) : sc \in ScoreSamples}

\* agent_results after the four workers were joined
JoinedResults(sec, perf, style, bugs) ==
    [order |-> Domains,
     map   |-> [d \in DomainSet |->
                  CASE d = "security"    -> sec
                    [] d = "performance" -> perf
                    [] d = "style"       -> style
                    [] d = "bugs"        -> bugs]]

\* the operator step applied to every joined agent_results of the samples
ForJoinedResults(step(_)) ==
    \E sec \in ScoredResults("security"), perf \in ScoredResults("performance"),
       style \in ScoredResults("style"), bugs \in ScoredResults("bugs") :
        step(JoinedResults(sec, perf, style, bugs))

CallComputeFinalScore ==
    /\ call = "none"
    /\ ForJoinedResults(LAMBDA ar :
          /\ call' = "_compute_final_score"
          /\ args' = ar
          /\ \E out \in ComputeFinalScore(ar) : ret' = out)
    /\ UNCHANGED pipelineVars

CallComputeMetrics ==
    /\ call = "none"
    /\ ForJoinedResults(LAMBDA ar :
          /\ call' = "_compute_metrics"
          /\ args' = ar
          /\ \E out \in ComputeMetrics(ar) : ret' = out)
    /\ UNCHANGED pipelineVars

CallComputeGrade ==
    /\ call = "none"
    /\ \E score \in 0..100 :
          /\ call' = "_compute_grade"
          /\ args' = [score |-> score]
          /\ ret' = ComputeGrade(score)
    /\ UNCHANGED pipelineVars

\* the scoring lines of run_orchestrator on given worker results
CallScoreStage ==
    /\ call = "none"
    /\ ForJoinedResults(LAMBDA ar :
          /\ call' = "score_stage"
          /\ args' = ar
          /\ \E out \in ScoreStage(ar) : ret' = out)
    /\ UNCHANGED pipelineVars

NextScore ==
    \/ CallComputeFinalScore
    \/ CallComputeMetrics
    \/ CallComputeGrade
    \/ CallScoreStage

SpecScore == Init /\ [][NextScore]_vars

-----------------------------------------------------------------------------
(* Extraction of the structured payload from a backend text: the fence     *)
(* search of _call_openai and _call_local, then _parse_json_safe. A text   *)
(* is a sequence of tokens: a run of three backticks, the word json, a     *)
(* blank, a brace, or a quote that opens or closes a JSON string.          *)

\* longest backend text of the harness, in tokens
MaxText == 5

\* the token that stands for a run of three backticks
Fence == "FENCE"

Tokens == {Fence, "json", " ", "{", "}", "q"}

\* positions of the fences of text t
FencePositions(t) == {i \in 1..Len(t) : t[i] = Fence}

Least(S) == CHOOSE x \in S : \A y \in S : x <= y

\* re.search(fence (?:json)?\s*(.*?) fence, text, re.DOTALL): the leftmost
\* fence opens, an optional json and blanks are skipped, and the group runs
\* to the next fence, the first one the lazy .*? meets
FenceSearch(t) ==
    LET ps == FencePositions(t)
    IN  IF Cardinality(ps) < 2
        THEN [found |-> FALSE, group |-> <<>>]
        ELSE LET i     == Least(ps)
                 j     == Least(ps \ {i})
                 start == IF i + 1 < j /\ t[i + 1] = "json" THEN i + 2 ELSE i + 1
             IN  [found |-> TRUE, group |-> LStrip(SubSeq(t, start, j - 1))]

\* if fence_match: text = fence_match.group(1).strip()
StripFence(t) ==
    IF FenceSearch(t).found THEN Strip(FenceSearch(t).group) ELSE t

\* json.loads(text) on token texts: blanks around the document and inside
\* the braces are skipped; a document is { q chars q }, read as the object
\* {"fixed_code": chars}; every other text raises JSONDecodeError
JsonLoads(t) ==
    LET doc  == Strip(t)
        body == IF Len(doc) >= 2 THEN Strip(SubSeq(doc, 2, Len(doc) - 1)) ELSE <<>>
    IN  IF /\ Len(doc) >= 2
           /\ doc[1] = "{"
           /\ doc[Len(doc)] = "}"
           /\ Len(body) >= 2
           /\ body[1] = "q"
           /\ body[Len(body)] = "q"
           /\ \A k \in 2..(Len(body) - 1) : body[k] # "q"
        THEN TextReply("object", [fixed_code |-> SubSeq(body, 2, Len(body) - 1)])
        ELSE TextReply("invalid", EmptyDict)

\* the object the auto-fix adapter gets from the model's answer t
Extract(t) == ParseJsonSafe(JsonLoads(StripFence(t)), PyDict(AutofixFallback(<<>>)))

\* the answer t as a model wraps it in a code fence, with or without the tag
Fenced(t, tagged) ==
    (IF tagged THEN <<Fence, "json", " ">> ELSE <<Fence, " ">>) \o t \o <<" ", Fence>>

Texts == UNION {[1..n -> Tokens] : n \in 0..MaxText}

\* the extraction is applied to a text and to the same text in a fence
CallExtract ==
    /\ call = "none"
    /\ \E t \in Texts, tagged \in BOOLEAN :
          /\ call' = "extract"
          /\ args' = [text |-> t, tagged |-> tagged]
          /\ ret' = [plain |-> Extract(t), fenced |-> Extract(Fenced(t, tagged))]
    /\ UNCHANGED pipelineVars

NextFence == CallExtract

SpecFence == Init /\ [][NextFence]_vars

-----------------------------------------------------------------------------
(* Harness of _generate_quick_wins: the function is applied to the merged  *)
(* issues of one set of worker results.                                    *)

\* finding lists of a worker of domain d: none, one finding of severity
\* high, one of the domain's default severity, or both
QuickWinFindings(d) ==
    {<<>>, <<FullFinding(d)>>, <<BareFindingB>>, <<BareFindingB, FullFinding(d)>>}

CallGenerateQuickWins ==
    /\ call = "none"
    /\ \E sec \in QuickWinFindings("security"), perf \in QuickWinFindings("performance"),
          style \in QuickWinFindings("style"), bugs \in QuickWinFindings("bugs") :
          LET merged == MergeIssues(JoinedResults(
                            GenResult("security", sec, 80),
                            GenResult("performance", perf, 80),
                            GenResult("style", style, 80),
                            GenResult("bugs", bugs, 80)))
          IN  /\ call' = "_generate_quick_wins"
              /\ args' = [merged_issues |-> merged]
              /\ ret' = GenerateQuickWins(merged)
    /\ UNCHANGED pipelineVars

NextQuickWins == CallGenerateQuickWins

SpecQuickWins == Init /\ [][NextQuickWins]_vars

-----------------------------------------------------------------------------
(* Harness of _build_issues_summary_for_autofix: the digest and the merged *)
(* issues of one set of worker results.                                    *)

\* a fix text of two lines, as a backend writes a code snippet
TwoLineText == "x\ny"

\* text.count("\n") of a field text of the samples
LineBreaks(text) == IF text = TwoLineText THEN 1 ELSE 0

\* a finding of domain d whose fix text holds a line break
TwoLineFinding(d) ==
    ("line" :> 1) @@ ("severity" :> "low") @@ ("description" :> "d")
        @@ (FixKey(d) :> TwoLineText)

\* "\n".join(lines): the number of lines of the joined text, every digest
\* line adding one and the line breaks inside its fields
RECURSIVE JoinedLineCount(_)
JoinedLineCount(lines) ==
    IF Len(lines) = 0
    THEN 0
    ELSE 1 + LineBreaks(Get(Head(lines), "description", ""))
           + LineBreaks(Get(Head(lines), "fix", ""))
           + JoinedLineCount(Tail(lines))

\* finding lists of a worker of domain d
DigestFindings(d) ==
    {<<>>, <<FullFinding(d)>>, <<BareFindingB, FullFinding(d)>>, <<TwoLineFinding(d)>>}

\* results of a worker of domain d: generated objects, and the error record
\* the coordinator stores for a failed future
DigestResults(d) ==
    {GenResult(d, fs, 80) : fs \in DigestFindings(d)} \cup {[error |-> "failed"]}

CallBuildIssuesSummary ==
    /\ call = "none"
    /\ \E sec \in DigestResults("security"), perf \in DigestResults("performance"),
          style \in DigestResults("style"), bugs \in DigestResults("bugs") :
          LET ar     == JoinedResults(sec, perf, style, bugs)
              digest == BuildIssuesSummaryForAutofix(ar)
          IN  /\ call' = "_build_issues_summary_for_autofix"
              /\ args' = [agent_results |-> ar]
              /\ ret' = [digest       |-> digest,
                         line_count   |-> JoinedLineCount(digest),
                         total_issues |-> Len(MergeIssues(ar))]
    /\ UNCHANGED pipelineVars

NextDigest == CallBuildIssuesSummary

SpecDigest == Init /\ [][NextDigest]_vars

-----------------------------------------------------------------------------
(* Harness of the projection in _merge_issues: one worker reports one      *)
(* finding, any of whose fields may be missing.                            *)

\* the fields of a finding of domain d that the merger reads
ReadFields(d) == {"line", "severity", TypeKey(d), "description", FixKey(d), "impact"}

\* a value a backend gives the field k
FieldValue(k) ==
    CASE k = "line"        -> 3
      [] k = "severity"    -> "critical"
      [] k = "description" -> "given description"
      [] k = "impact"      -> "given impact"
      [] k \in {"type", "category"} -> "given type"
      [] OTHER             -> "given fix"

\* the findings of domain d that carry the fields ks only
SparseFinding(d, ks) == [k \in ks |-> FieldValue(k)]

CallMergeOne ==
    /\ call = "none"
    /\ \E d \in DomainSet : \E ks \in SUBSET ReadFields(d) :
          LET f  == SparseFinding(d, ks)
              ar == DictSet(EmptyOrdered, d, GenResult(d, <<f>>, 80))
          IN  /\ call' = "_merge_issues one"
              /\ args' = [domain |-> d, finding |-> f]
              /\ ret' = MergeIssues(ar)
    /\ UNCHANGED pipelineVars

NextProject == CallMergeOne

SpecProject == Init /\ [][NextProject]_vars

-----------------------------------------------------------------------------
(* The lazily created backend handle (_get_openai_client and               *)
(* LocalLLM.get_instance): the four analysis workers make their first      *)
(* backend call on their pool threads. In these runs call names the        *)
(* accessor, args holds each thread's position and ret the module state.   *)

\* the accessors of the two backends; _call_llm routes every call of a
\* process to one of them
HandleAccessors == {"_get_openai_client", "LocalLLM.get_instance"}

\* the handle is None
NoHandle == 0

InitHandle ==
    /\ PipelineInit
    /\ call \in HandleAccessors
    /\ args = [d \in DomainSet |-> "called"]
    /\ \E ok \in BOOLEAN :
          ret = [handle |-> NoHandle, constructed |-> 0, configured |-> ok]

\* thread d evaluates the test "is None" of the accessor
HandleTest(d) ==
    /\ args[d] = "called"
    /\ args' = [args EXCEPT ![d] = IF ret.handle = NoHandle
                                   THEN "constructing" ELSE "returned"]
    /\ UNCHANGED <<pipelineVars, call, ret>>

\* thread d, having seen None: the accessor raises RuntimeError when the API
\* key or the adapter path is missing; else it constructs a handle and
\* assigns it to the module variable
HandleConstruct(d) ==
    /\ args[d] = "constructing"
    /\ IF ret.configured
       THEN /\ ret' = [ret EXCEPT !.constructed = @ + 1,
                                  !.handle = ret.constructed + 1]
            /\ args' = [args EXCEPT ![d] = "returned"]
       ELSE /\ args' = [args EXCEPT ![d] = "raised"]
            /\ UNCHANGED ret
    /\ UNCHANGED <<pipelineVars, call>>

NextHandle ==
    \/ \E d \in DomainSet : HandleTest(d)
    \/ \E d \in DomainSet : HandleConstruct(d)

SpecHandle == InitHandle /\ [][NextHandle]_vars

-----------------------------------------------------------------------------
(* The review quota of an authenticated user: concurrent requests of one   *)
(* user to /api/review and /api/review/stream. In these runs call names the *)
(* quota, args holds each request's position and ret the user's row.       *)

\* concurrent requests of the user
MaxRequests == 3

\* reviews_limit of the user's row
ReviewsLimit == 2

Requests == 1..MaxRequests

Endpoints == {"review_code", "review_code_stream"}

\* a request that has not arrived
NoRequest == [at |-> "none", endpoint |-> "none", reviews_used |-> 0]

\* the user's row and the number of pipeline runs started for the user; the
\* reviews counted so far were runs
InitQuota ==
    /\ PipelineInit
    /\ call = "quota"
    /\ args = [r \in Requests |-> NoRequest]
    /\ \E used \in 0..ReviewsLimit : ret = [reviews_used |-> used, runs |-> used]

\* a request arrives: get_optional_user reads the user's row, the handler
\* is called with that copy
QuotaArrive(r) ==
    /\ args[r].at = "none"
    /\ \E e \in Endpoints :
          args' = [args EXCEPT ![r] = [at |-> "checking", endpoint |-> e,
                                       reviews_used |-> ret.reviews_used]]
    /\ UNCHANGED <<pipelineVars, call, ret>>

\* the rate-limit test on the copy: HTTP 429, or the pipeline is started (by
\* the handler, or by the thread review_code_stream starts)
QuotaCheck(r) ==
    /\ args[r].at = "checking"
    /\ IF args[r].reviews_used >= ReviewsLimit
       THEN /\ args' = [args EXCEPT ![r].at = "rejected"]
            /\ UNCHANGED ret
       ELSE /\ args' = [args EXCEPT ![r].at = "running"]
            /\ ret' = [ret EXCEPT !.runs = @ + 1]
    /\ UNCHANGED <<pipelineVars, call>>

\* run_orchestrator raises: nothing is saved or counted
QuotaPipelineRaises(r) ==
    /\ args[r].at = "running"
    /\ args' = [args EXCEPT ![r].at = "failed"]
    /\ UNCHANGED <<pipelineVars, call, ret>>

\* run_orchestrator returns: create_review, then update_user_reviews_used,
\* one UPDATE statement that adds 1 to the row's reviews_used
UpdateUserReviewsUsed(r) ==
    /\ args[r].at = "running"
    /\ args' = [args EXCEPT ![r].at = "answered"]
    /\ ret' = [ret EXCEPT !.reviews_used = @ + 1]
    /\ UNCHANGED <<pipelineVars, call>>

NextQuota ==
    \/ \E r \in Requests : QuotaArrive(r)
    \/ \E r \in Requests : QuotaCheck(r)
    \/ \E r \in Requests : QuotaPipelineRaises(r)
    \/ \E r \in Requests : UpdateUserReviewsUsed(r)

SpecQuota == InitQuota /\ [][NextQuota]_vars

-----------------------------------------------------------------------------
(* Claims.                                                                 *)

\* the analysis worker of domain d failed: its backend call raised or its
\* backend answer was not a JSON object
WorkerFailed(d) == reply[d].kind \in {"raise", "invalid"} \cup NonObjectKinds

WorkerSucceeded(d) == reply[d].kind = "object"

\* run_orchestrator has returned or raised
PipelineEnded == pc \in {"done", "raised"}

\* the merging phase has begun
MergePhaseBegun == pc \in {"merged", "autofixing", "done", "raised"}

\* the findings the backend reported to the worker of domain d
Reported(d) == Get(reply[d].obj, FindingsKey(d), <<>>)

\* severity ranks as the claims give them
ClaimRank(sev) ==
    IF sev = "critical" THEN 0
    ELSE IF sev = "high" THEN 1
    ELSE IF sev = "medium" THEN 2
    ELSE IF sev = "low" THEN 3
    ELSE 4

\* C1: for each analysis domain d, if d's worker fails while the other three
\* succeed, run_orchestrator returns a Report whose merged list holds every
\* issue the other three reported and no issue of category d, and d's
\* sub-score is the fallback value 0.
C1_FailedWorkerTolerated ==
    \A d \in DomainSet :
        (/\ PipelineEnded
         /\ WorkerFailed(d)
         /\ \A e \in DomainSet \ {d} : WorkerSucceeded(e))
        => /\ pc = "done"
           /\ \A e \in DomainSet \ {d} : \A i \in 1..Len(Reported(e)) :
                 \E j \in 1..Len(report.issues) :
                    report.issues[j] = Project(e, Reported(e)[i])
           /\ \A j \in 1..Len(report.issues) : report.issues[j].category # Category(d)
           /\ report.agent_results[d].score = 0
           /\ SubScore(agent_results, d) = 0

\* C2: the merging phase never begins while an analysis worker is still
\* running: once it has begun, each of the four workers has run and reached a
\* terminal state (returned or raised); none was cancelled or skipped.
C2_MergeAfterAllTerminal ==
    MergePhaseBegun =>
        \A d \in DomainSet : Terminal(fut[d]) /\ reply[d].kind # "none"

\* C2 witness: merging has begun in a run whose first finished worker had
\* failed, and the three others returned their results.
C2_Witness ==
    /\ pc = "merged"
    /\ "error" \in DOMAIN agent_results.map[agent_results.order[1]]
    /\ \A i \in 2..4 : fut[agent_results.order[i]].status = "returned"
    /\ \A i \in 2..4 : WorkerSucceeded(agent_results.order[i])

C4_FailureGivesFallback ==
    (/\ call = "run_agent"
     /\ args.worker \in DomainSet
     /\ args.reply.kind \in {"raise", "invalid"})
    => /\ ret.status = "returned"
       /\ Get(ret.value, FindingsKey(args.worker), <<"absent">>) = <<>>
       /\ Get(ret.value, ScoreKey(args.worker), -1) = 0
       /\ Len(Get(ret.value, "summary", <<>>)) > 0
       /\ Get(ret.value, "summary", <<>>)[1] = "Analysis failed"

\* C5: no worker adapter lets an exception escape: for every backend output,
\* also a text that parses to a list, string, number or null, the adapter
\* returns a result.
C5_AdapterNeverRaises == call = "run_agent" => ret.status = "returned"

\* C6: a request whose code is empty or whitespace-only starts no worker on
\* any path, and yields no Report.
C6_BlankCodeStartsNoWorker ==
    (pc # "idle" /\ Len(Strip(code)) = 0)
    => /\ \A d \in DomainSet : fut[d].status = "unsubmitted"
       /\ autofix_calls = 0
       /\ pc # "done"

\* C7: when all four analysis workers fail, run_orchestrator assembles a
\* Report with metadata.total_issues = 0, and the auto-fix worker is invoked
\* with the "No issues found" digest.
C7_AllFailedStillReports ==
    (PipelineEnded /\ \A d \in DomainSet : WorkerFailed(d))
    => /\ autofix_calls = 1
       /\ issues_text = NoIssuesDigest
       /\ pc = "done"
       /\ report.metadata.total_issues = 0

\* C8: the list _merge_issues returns is sorted: for issues A before B,
\* rank(A) <= rank(B), and line(A) <= line(B) when the ranks are equal.
C8_MergedSorted ==
    call = "_merge_issues" =>
        \A i, j \in 1..Len(ret) :
            i < j =>
                /\ ClaimRank(ret[i].severity) <= ClaimRank(ret[j].severity)
                /\ ClaimRank(ret[i].severity) = ClaimRank(ret[j].severity)
                      => ret[i].line <= ret[j].line

\* C8 witness: two issues of equal rank that the sort put in line order,
\* against the order they were appended in.
C8_Witness ==
    /\ call = "_merge_issues"
    /\ Len(ret) = 2
    /\ ClaimRank(ret[1].severity) = ClaimRank(ret[2].severity)
    /\ ret[1].line < ret[2].line
    /\ ret # MergedUnsorted(args)

\* number of positions of s that hold x
Occurrences(s, x) == Cardinality({i \in 1..Len(s) : s[i] = x})

\* C9: _merge_issues is a union: the merged list is as long as the four
\* finding lists together, and every projected finding occurs in it as often
\* as the workers reported it, repeated findings included.
C9_MergeIsUnion ==
    call = "_merge_issues" =>
        /\ Len(ret) = Len(DomainFindings(args, "security"))
                        + Len(DomainFindings(args, "performance"))
                        + Len(DomainFindings(args, "style"))
                        + Len(DomainFindings(args, "bugs"))
        /\ \A d \in DomainSet : \A i \in 1..Len(DomainFindings(args, d)) :
              LET x == Project(d, DomainFindings(args, d)[i])
              IN  Occurrences(ret, x) = Occurrences(MergedUnsorted(args), x)

\* C9 witness: two findings with the same line and description are both in
\* the merged list.
C9_Witness ==
    /\ call = "_merge_issues"
    /\ Len(ret) = 2
    /\ ret[1].line = ret[2].line
    /\ ret[1].description = ret[2].description

\* the issues the workers' results hold, domain by domain in the order
\* security, performance, style, bugs, each in the worker's own order
ReportedInDomainOrder ==
    LET of(d) == IF fut[d].status = "returned"
                 THEN LET fs == Get(fut[d].value, FindingsKey(d), <<>>)
                      IN  [i \in 1..Len(fs) |-> Project(d, fs[i])]
                 ELSE <<>>
    IN  of("security") \o of("performance") \o of("style") \o of("bugs")

\* the place of t[k] when t is ordered by (rank, line) and issues with equal
\* keys keep their order in t
StablePlace(t, k) ==
    1 + Cardinality({m \in 1..Len(t) :
            \/ ClaimRank(t[m].severity) < ClaimRank(t[k].severity)
            \/ /\ ClaimRank(t[m].severity) = ClaimRank(t[k].severity)
               /\ t[m].line < t[k].line
            \/ /\ ClaimRank(t[m].severity) = ClaimRank(t[k].severity)
               /\ t[m].line = t[k].line
               /\ m < k})

\* C10: for fixed worker outputs the merged list is the same for every order
\* in which the workers finish: it is the workers' issues ordered by
\* (rank, line), issues with equal keys in domain order security,
\* performance, style, bug and within a domain in the worker's order; the
\* Report carries that list.
C10_MergeOrderDeterministic ==
    /\ MergePhaseBegun =>
          LET t == ReportedInDomainOrder
          IN  /\ Len(merged_issues) = Len(t)
              /\ \A k \in 1..Len(t) : merged_issues[StablePlace(t, k)] = t[k]
    /\ pc = "done" => report.issues = merged_issues

\* C10 witness: a Report of a run in which the bugs worker finished first and
\* the security worker last, both and the performance worker with findings
\* that tie on the sort key.
C10_Witness ==
    /\ pc = "done"
    /\ agent_results.order[1] = "bugs"
    /\ agent_results.order[4] = "security"
    /\ Len(Reported("security")) = 3
    /\ Len(Reported("performance")) = 3
    /\ Len(Reported("bugs")) = 3
    /\ Len(report.issues) >= 9

\* the sub-score of domain d the scoring harness was called with; a result
\* without the field counts as 100
GivenScore(d) == Get(args.map[d], ScoreKey(d), 100)

\* the harness was called with results that all carry a sub-score in 0..100
ScoresInRange ==
    \A d \in DomainSet :
        ScoreKey(d) \in DOMAIN args.map[d] /\ args.map[d][ScoreKey(d)] \in 0..100

\* 100 times the weighted sum the claims give
ClaimWeighted100 ==
    30 * GivenScore("security") + 20 * GivenScore("performance")
        + 15 * GivenScore("style") + 35 * GivenScore("bugs")

ClaimClamp(n) == IF n < 0 THEN 0 ELSE IF n > 100 THEN 100 ELSE n

\* n is an integer nearest to x / unit
Nearest(n, x, unit) == 2 * (unit * n - x) <= unit /\ 2 * (x - unit * n) <= unit

\* C11: _compute_final_score returns an integer in 0..100 for every
\* combination of numeric sub-scores: zero, 100, negative, above 100, and
\* results that lack the sub-score field.
C11_FinalScoreInRange ==
    call = "_compute_final_score" =>
        ret.status = "returned" /\ ret.value \in 0..100

\* C12: where the weighted sum is a number, the composite score is
\* security*0.30 + performance*0.20 + style*0.15 + bugs*0.35 rounded to a
\* nearest integer and clamped to 0..100, each term the worker's own
\* sub-score and 100 for a result that lacks the field.
C12_WeightedRoundedClamped ==
    (call = "_compute_final_score" /\ \A d \in DomainSet : IsFinite(GivenScore(d)))
    => /\ ret.status = "returned"
       /\ \E n \in -100..200 :
             /\ Nearest(n, ClaimWeighted100, 100)
             /\ ret.value = ClaimClamp(n)

\* C12 witness: a composite of a result without sub-score (security, counted
\* as 100) and three reported sub-scores, rounded up from 38.7 to 39.
C12_Witness ==
    /\ call = "_compute_final_score"
    /\ ScoreKey("security") \notin DOMAIN args.map["security"]
    /\ GivenScore("performance") = 36
    /\ GivenScore("style") = 10
    /\ GivenScore("bugs") = 0
    /\ ret.status = "returned"
    /\ ret.value = 39

\* C13: for integer sub-scores in 0..100, _compute_metrics returns
\* maintainability = round(style*0.6 + bugs*0.4), readability =
\* round(style*0.8 + performance*0.2), and security and performance as the
\* workers' scores (the clamp to 0..100 changes none of these values).
C13_MetricsRounded ==
    (call = "_compute_metrics" /\ ScoresInRange)
    => /\ ret.status = "returned"
       /\ Nearest(ret.value.maintainability,
                  6 * GivenScore("style") + 4 * GivenScore("bugs"), 10)
       /\ Nearest(ret.value.readability,
                  8 * GivenScore("style") + 2 * GivenScore("performance"), 10)
       /\ ret.value.security = GivenScore("security")
       /\ ret.value.performance = GivenScore("performance")

\* the inclusive lower bounds of the grades
GradeBounds ==
    {<<95, "A+">>, <<88, "A">>, <<80, "A-">>, <<75, "B+">>, <<70, "B">>,
     <<65, "B-">>, <<60, "C+">>, <<55, "C">>, <<50, "C-">>, <<40, "D">>}

\* the grade of the highest lower bound the score reaches, else F
ClaimGrade(score) ==
    LET reached == {b \in GradeBounds : b[1] <= score}
    IN  IF reached = {}
        THEN "F"
        ELSE (CHOOSE b \in reached : \A c \in reached : c[1] <= b[1])[2]

\* C14: _compute_grade maps every score in 0..100 to the grade of the highest
\* inclusive lower bound it reaches (95 A+, 88 A, 80 A-, 75 B+, 70 B, 65 B-,
\* 60 C+, 55 C, 50 C-, 40 D, else F), and the grade run_orchestrator puts in
\* the Report is that function of the Report's score.
C14_GradeOfScore ==
    /\ call = "_compute_grade" => ret = ClaimGrade(args.score)
    /\ (call = "score_stage" /\ ret.status = "returned")
          => ret.value.grade = ClaimGrade(ret.value.final_score)

\* C14 witness: a score on a lower bound gets the grade of that bound.
C14_Witness == call = "_compute_grade" /\ args.score = 75 /\ ret = "B+"

\* the scoring lines ran on security_score = 10 and 100 for the others
ScenarioOne ==
    /\ call = "score_stage"
    /\ ScoreKey("security") \in DOMAIN args.map["security"]
    /\ GivenScore("security") = 10
    /\ \A d \in DomainSet \ {"security"} :
          ScoreKey(d) \in DOMAIN args.map[d] /\ GivenScore(d) = 100

\* C15 as stated: with security_score = 10 and the other sub-scores 100 the
\* pipeline reports composite score 73 and grade "B+".
C15_ScenarioGradeBPlus ==
    ScenarioOne =>
        /\ ret.status = "returned"
        /\ ret.value.final_score = 73
        /\ ret.value.grade = "B+"

\* C15 amended: with security_score = 10 and the other sub-scores 100 the
\* pipeline reports composite score 73 and grade "B".
C15_ScenarioGradeB ==
    ScenarioOne =>
        /\ ret.status = "returned"
        /\ ret.value.final_score = 73
        /\ ret.value.grade = "B"

\* C15 witness: the scenario was scored and gave 73.
C15_Witness == ScenarioOne /\ ret.value.final_score = 73

\* C16: fence stripping is a round trip: for every backend text, the text
\* in a code fence yields through the extraction the same object as the text
\* unfenced, also when the text holds triple backticks itself.
C16_FenceRoundTrip == call = "extract" => ret.fenced = ret.plain

\* number of calls of the callback with the event e
Emitted(e) == Cardinality({i \in 1..Len(events) : events[i] = e})

\* positions of the calls of the callback with the event e
EmittedAt(e) == {i \in 1..Len(events) : events[i] = e}

\* C17: in a run with a progress sink each analysis worker gets at most one
\* running event and at most one terminal event, completed or failed and
\* never both, the terminal one after the running one; in a run that
\* returned its Report each worker has got exactly one of each.
C17_WorkerEventsOrdered ==
    \A d \in DomainSet :
        /\ Emitted(<<d, "running">>) <= 1
        /\ Emitted(<<d, "completed">>) + Emitted(<<d, "failed">>) <= 1
        /\ \A i \in EmittedAt(<<d, "completed">>) \cup EmittedAt(<<d, "failed">>) :
              \E j \in EmittedAt(<<d, "running">>) : j < i
        /\ (pc = "done" /\ sink.given) =>
              /\ Emitted(<<d, "running">>) = 1
              /\ Emitted(<<d, "completed">>) + Emitted(<<d, "failed">>) = 1

\* the final events of a stream
FinalItems == {ResultItem, ErrorItem}

\* C18: every stream the generator has ended closes with exactly one final
\* event, result or error, and nothing is delivered after it, however long
\* the backend calls of the run take.
C18_StreamEndsWithFinalEvent ==
    (call = "event_generator" /\ ret.closed) =>
        /\ Len(ret.stream) > 0
        /\ ret.stream[Len(ret.stream)] \in FinalItems
        /\ Cardinality({i \in 1..Len(ret.stream) : ret.stream[i] \in FinalItems}) = 1

\* the worker results as the futures delivered them, in the order the
\* coordinator handled them
DeliveredResults ==
    [order |-> SelectSeq(agent_results.order, LAMBDA k : k \in DomainSet),
     map   |-> [d \in DOMAIN agent_results.map \cap DomainSet |->
                  IF fut[d].status = "returned"
                  THEN fut[d].value
                  ELSE [error |-> fut[d].exc]]]

\* C19: a callback that raises cannot fail the pipeline: no successful
\* result of an analysis worker is replaced by an error record, and every
\* run ends with the Report that the workers' results give without a sink.
C19_SinkCannotFail ==
    /\ \A d \in DomainSet :
          (HasKey(agent_results, d) /\ fut[d].status = "returned")
              => agent_results.map[d] = fut[d].value
    /\ PipelineEnded =>
          /\ pc = "done"
          /\ report.issues = MergeIssues(DeliveredResults)
          /\ \A d \in DomainSet :
                report.agent_results[d] = AgentBlock(DeliveredResults, d)

\* C20: _generate_quick_wins returns at most 5 entries for every merged
\* issue list.
C20_QuickWinsAtMostFive == call = "_generate_quick_wins" => Len(ret) <= 5

\* C20 witness: issues of two categories other than security give two tips
\* and the three general tips, five entries.
C20_Witness ==
    /\ call = "_generate_quick_wins"
    /\ Len(ret) = 5
    /\ Len(OfCategory(args.merged_issues, "security")) = 0
    /\ Len(args.merged_issues) > 0

\* C21: in _generate_quick_wins a list that needed general tips (fewer than
\* three category tips) never ends with more than three entries.
C21_FillerStopsAtThree ==
    (call = "_generate_quick_wins" /\ Len(CategoryTips(args.merged_issues)) < 3)
        => Len(ret) <= 3

\* C26: _generate_quick_wins returns between 3 and 5 entries for every
\* merged issue list, the empty one included.
C26_QuickWinsThreeToFive ==
    call = "_generate_quick_wins" => (Len(ret) >= 3 /\ Len(ret) <= 5)

\* C26 witness: the empty merged list gives the three general tips.
C26_Witness ==
    /\ call = "_generate_quick_wins"
    /\ args.merged_issues = <<>>
    /\ Len(ret) = 3

\* the findings the workers of the digest call reported, over all domains
DigestInputCount ==
    LET n(d) == Len(DomainFindings(args.agent_results, d))
    IN  n("security") + n("performance") + n("style") + n("bugs")

\* C22: the auto-fix digest has one line per finding of every domain, in the
\* order security, performance, style, bugs and tagged with its domain, so
\* its line count equals total_issues; it is the placeholder exactly when no
\* domain has a finding.
C22_DigestOneLinePerFinding ==
    call = "_build_issues_summary_for_autofix" =>
        /\ (ret.digest = NoIssuesDigest) <=> (DigestInputCount = 0)
        /\ DigestInputCount > 0 =>
              /\ ret.line_count = ret.total_issues
              /\ ret.digest =
                    DigestLines(args.agent_results, "security")
                        \o DigestLines(args.agent_results, "performance")
                        \o DigestLines(args.agent_results, "style")
                        \o DigestLines(args.agent_results, "bugs")

\* the terminal events of the analysis workers
TerminalEvents == {<<d, st>> : d \in DomainSet, st \in {"completed", "failed"}}

\* every call of the callback with the event e comes after one with f
Follows(e, f) == \A i \in EmittedAt(e) : \E j \in EmittedAt(f) : j < i

\* C23: with a progress sink the events of a run are ordered by phase:
\* started is the first event; the four running events come before any
\* terminal event; merging comes after a terminal event of every worker;
\* autofix running comes after merging and before autofix completed; the
\* orchestrator's completed is the last event, and a run that returned its
\* Report has emitted it.
C23_EventsOrderedByPhase ==
    /\ Len(events) > 0 => events[1] = <<"orchestrator", "started">>
    /\ EmittedAt(<<"orchestrator", "started">>) \subseteq {1}
    /\ \A t \in TerminalEvents, d \in DomainSet : Follows(t, <<d, "running">>)
    /\ \A d \in DomainSet :
          \A i \in EmittedAt(<<"orchestrator", "merging">>) :
              \E j \in EmittedAt(<<d, "completed">>) \cup EmittedAt(<<d, "failed">>) :
                  j < i
    /\ \A t \in TerminalEvents :
          \A i \in EmittedAt(t), j \in EmittedAt(<<"orchestrator", "merging">>) : i < j
    /\ Follows(<<"autofix", "running">>, <<"orchestrator", "merging">>)
    /\ Follows(<<"autofix", "completed">>, <<"autofix", "running">>)
    /\ Follows(<<"orchestrator", "completed">>, <<"autofix", "completed">>)
    /\ EmittedAt(<<"orchestrator", "completed">>) \subseteq {Len(events)}
    /\ (pc = "done" /\ sink.given) =>
          events[Len(events)] = <<"orchestrator", "completed">>

\* C23 witness: a run with a sink returned its Report after the thirteen
\* events of the four phases, the bugs worker having finished first.
C23_Witness ==
    /\ pc = "done"
    /\ sink.given
    /\ Len(events) = 13
    /\ events[6] = <<"bugs", "completed">>
    /\ events[10] = <<"orchestrator", "merging">>

\* the field k is missing in the finding of the projection call
Missing(k) == k \notin DOMAIN args.finding

\* default severities as the claim gives them
ClaimDefaultSeverity(d) ==
    IF d \in {"security", "performance"} THEN "medium"
    ELSE IF d = "style" THEN "low"
    ELSE "high"

\* the defaults of severity, description and suggestion as the claim gives
\* them
SeverityAndTextDefaults ==
    /\ Len(ret) = 1
    /\ Missing("severity") => ret[1].severity = ClaimDefaultSeverity(args.domain)
    /\ Missing("description") => ret[1].description = ""
    /\ Missing(FixKey(args.domain)) => ret[1].suggestion = ""

\* C24: a finding projected by _merge_issues with missing fields gets the
\* severity medium (security, performance), low (style) or high (bugs), and
\* the empty string for a missing description, suggestion or impact.
C24_MissingFieldDefaults ==
    call = "_merge_issues one" =>
        /\ SeverityAndTextDefaults
        /\ Missing("impact") => ret[1].impact = ""

\* C25: in every Report, whatever the outcome of the worker, the score of
\* a domain's per-worker block equals the sub-score of that domain that
\* entered the composite score and the sub-metrics.
C25_BlockScoreIsSubScore ==
    pc = "done" =>
        \A d \in DomainSet :
            report.agent_results[d].score = SubScore(agent_results, d)

\* C27: when the auto-fix worker fails, by a backend error or by output that
\* cannot be parsed, the Report's fixed_code is the submitted code and its
\* changes_made is empty.
C27_AutofixFailureKeepsCode ==
    (pc = "done" /\ reply["autofix"].kind \in {"raise", "invalid"}) =>
        /\ report.fixed_code = code
        /\ report.changes_made = <<>>

\* run_pipeline has put its final event and then the sentinel
SentinelPut ==
    /\ Len(args.put) = 2
    /\ args.put[1] \in FinalItems
    /\ args.put[2] = Sentinel

\* a stream was started
StreamStarted == call = "event_generator" /\ pc \notin {"idle", "rejected"}

\* C28: in every execution of the streaming endpoint the pipeline thread
\* puts the sentinel after its result or error event, whether the pipeline
\* returned or raised, and the generator eventually stops reading the queue.
C28_StreamTerminates ==
    /\ [](args.put # <<>> => SentinelPut)
    /\ StreamStarted ~> (SentinelPut /\ ret.closed)

\* C28 witness: the pipeline raised, and the generator has read the error
\* event and the sentinel and stopped.
C28_Witness ==
    /\ pc = "raised"
    /\ SentinelPut
    /\ ret.closed
    /\ ret.taken = Len(Queue)
    /\ ret.stream[Len(ret.stream)] = ErrorItem

\* C29: when the four analysis workers make their first backend call at
\* the same time, the lazily initialised backend handle is constructed at
\* most once.
C29_HandleConstructedOnce ==
    call \in HandleAccessors => ret.constructed <= 1

\* C30: for an authenticated user reviews_used never exceeds reviews_limit,
\* and under any interleaving of concurrent requests to the two endpoints
\* at most reviews_limit pipeline runs are started for the user.
C30_QuotaNeverExceeded ==
    call = "quota" =>
        /\ ret.reviews_used <= ReviewsLimit
        /\ ret.runs <= ReviewsLimit

====
